---- MODULE Spec2Model ----
(***************************************************************************)
(* A model of koketama/redblacktree: the multi-valued red-black tree       *)
(* engine of src/redblacktree.go (type Tree, lines 247-804) and the        *)
(* reader/writer lock that guards it.                                      *)
(*                                                                         *)
(* The node graph is a heap: a function from node addresses to Node        *)
(* records whose left, right and parent fields are addresses (Nil for a    *)
(* nil pointer).  Every helper of the source is an operator from a tree    *)
(* value (root, size, heap) to a tree value.                               *)
(***************************************************************************)
EXTENDS Integers, Sequences, FiniteSets, TLC

\* ---------------------------------------------------------------- bounds
MaxKey  == 6      \* keys are 1..MaxKey
MaxExtra == 2     \* every key is put with value 1; MaxExtra further (key, value)
                  \* pairs are put: (1,2), (1,3), (2,2), (2,3), (3,2), ...
NumProcs == 2     \* concurrent callers
MaxConcKey == 2   \* concurrent callers use the keys 1..MaxConcKey

Keys    == 1..MaxKey
NilKey  == 0                       \* a nil key
NilValue == 0                      \* a nil Value
\* Value.ID(): the identity of a value.  The values are 1, 2 and 3; 1 and 3
\* are different values with one identity, so that identity and equality of
\* values differ.
ID(v)   == v % 2

NodeIds == 1..MaxKey               \* addresses; at most one node per key
Nil     == 0                       \* the nil *Node

\* src/redblacktree.go:259-261
black == TRUE
red   == FALSE

\* The zero Node; also the content of an address that holds no node.
ZeroNode == [key |-> NilKey, values |-> <<>>, color |-> red,
             left |-> Nil, right |-> Nil, parent |-> Nil]

\* The tree NewWith returns: no root, size 0.
EmptyTree == [root |-> Nil, size |-> 0, nodes |-> [n \in NodeIds |-> ZeroNode]]

\* ------------------------------------------------------------ constructors
\* The comparators the callers pass: none (nil), or utils.IntComparator, which
\* the operator comparator below computes.
NilComparator == "nil"
IntComparator == "utils.IntComparator"
Comparators   == {NilComparator, IntComparator}

\* The errors a constructor returns: nil, or errors.New("comparator required").
NoError == "nil"
ComparatorRequired == "comparator required"

\* The nil *Tree: no instance.
NilTree == [root |-> Nil, size |-> 0, nodes |-> [n \in {} |-> ZeroNode]]

\* A faulty NewWith: it does not look at the comparator.
NewWithMut(c) == [tree |-> EmptyTree, err |-> NoError]

NewWith(c) ==
    IF c = NilComparator
    THEN [tree |-> NilTree, err |-> ComparatorRequired]
    ELSE [tree |-> EmptyTree, err |-> NoError]

\* New of the concurrency wrapper: the same test, then the wrapper around the
\* engine's tree.
New(c) ==
    IF c = NilComparator
    THEN [tree |-> NilTree, err |-> ComparatorRequired]
    ELSE [tree |-> NewWith(c).tree, err |-> NoError]

\* The iterator nobody has obtained.
NoIterator == [node |-> Nil, position |-> "none"]

VARIABLES
    tree,     \* the Tree: [root, size, nodes]
    ref,      \* reference map: key -> identity-deduplicated value sequence
    last,     \* the last operation: its arguments and what it returned
    drain,    \* the caller's loop "for !tree.Empty() { pop }": its position
    pc,       \* concurrent callers: where each goroutine is
    call,     \* the operation each goroutine runs, and its local variables
    lock,     \* the sync.RWMutex of the tree
    seen,     \* whether every tree a reader has observed was consistent
    twin,     \* a tree constructed when tree was last cleared (or constructed)
              \* that has received the same Put and Remove calls since
    err,      \* the error the constructor returned
    it        \* the caller's iterator

auxvars  == <<err, it>>
seqvars  == <<ref, last, drain, twin, auxvars>>
concvars == <<pc, call, lock, seen>>
vars == <<tree, ref, last, drain, pc, call, lock, seen, twin, err, it>>

\* ------------------------------------------------------- utils.IntComparator
comparator(a, b) == IF a = b THEN 0 ELSE IF a < b THEN -1 ELSE 1

\* ------------------------------------------------------------ node helpers
nodeColor(t, node) == IF node = Nil THEN black ELSE t.nodes[node].color

grandparent(t, node) ==
    IF node # Nil /\ t.nodes[node].parent # Nil
    THEN t.nodes[t.nodes[node].parent].parent
    ELSE Nil

sibling(t, node) ==
    IF node = Nil \/ t.nodes[node].parent = Nil THEN Nil
    ELSE IF node = t.nodes[t.nodes[node].parent].left
         THEN t.nodes[t.nodes[node].parent].right
         ELSE t.nodes[t.nodes[node].parent].left

uncle(t, node) ==
    IF node = Nil \/ t.nodes[node].parent = Nil
       \/ t.nodes[t.nodes[node].parent].parent = Nil
    THEN Nil
    ELSE sibling(t, t.nodes[node].parent)

\* A faulty maximumNode: it follows the left links.
RECURSIVE maximumNodeMut(_, _)
maximumNodeMut(t, node) ==
    IF node = Nil THEN Nil
    ELSE IF t.nodes[node].left # Nil THEN maximumNodeMut(t, t.nodes[node].left)
    ELSE node

RECURSIVE maximumNode(_, _)
maximumNode(t, node) ==
    IF node = Nil THEN Nil
    ELSE IF t.nodes[node].right # Nil THEN maximumNode(t, t.nodes[node].right)
    ELSE node

RECURSIVE lookupFrom(_, _, _)
lookupFrom(t, node, key) ==
    IF node = Nil THEN Nil
    ELSE LET compare == comparator(key, t.nodes[node].key)
         IN  IF compare = 0 THEN node
             ELSE IF compare < 0 THEN lookupFrom(t, t.nodes[node].left, key)
             ELSE lookupFrom(t, t.nodes[node].right, key)

lookup(t, key) == lookupFrom(t, t.root, key)

\* ------------------------------------------------- structural primitives
\* A faulty replaceNode: it leaves tree.root alone.
replaceNodeMut(t, old, new) ==
    LET p  == t.nodes[old].parent
        t1 == IF p = Nil THEN t
              ELSE IF old = t.nodes[p].left
                   THEN [t EXCEPT !.nodes[p].left = new]
                   ELSE [t EXCEPT !.nodes[p].right = new]
    IN  IF new # Nil THEN [t1 EXCEPT !.nodes[new].parent = p] ELSE t1

replaceNode(t, old, new) ==
    LET p  == t.nodes[old].parent
        t1 == IF p = Nil THEN [t EXCEPT !.root = new]
              ELSE IF old = t.nodes[p].left
                   THEN [t EXCEPT !.nodes[p].left = new]
                   ELSE [t EXCEPT !.nodes[p].right = new]
    IN  IF new # Nil THEN [t1 EXCEPT !.nodes[new].parent = p] ELSE t1

\* A faulty rotateLeft: it also exchanges the colours of the two nodes.
rotateLeftMut(t, node) ==
    LET r  == t.nodes[node].right
        t1 == replaceNode(t, node, r)
        rl == t1.nodes[r].left
        t2 == [t1 EXCEPT !.nodes[node].right = rl]
        t3 == IF rl # Nil THEN [t2 EXCEPT !.nodes[rl].parent = node] ELSE t2
        t4 == [t3 EXCEPT !.nodes[r].left = node]
        t5 == [t4 EXCEPT !.nodes[node].parent = r]
    IN  [t5 EXCEPT !.nodes[node].color = t.nodes[r].color,
                   !.nodes[r].color = t.nodes[node].color]

rotateLeft(t, node) ==
    LET r  == t.nodes[node].right
        t1 == replaceNode(t, node, r)
        rl == t1.nodes[r].left
        t2 == [t1 EXCEPT !.nodes[node].right = rl]
        t3 == IF rl # Nil THEN [t2 EXCEPT !.nodes[rl].parent = node] ELSE t2
        t4 == [t3 EXCEPT !.nodes[r].left = node]
    IN  [t4 EXCEPT !.nodes[node].parent = r]

\* A faulty rotateRight: it leaves the parent link of the subtree that
\* changes sides.
rotateRightMut(t, node) ==
    LET l  == t.nodes[node].left
        t1 == replaceNode(t, node, l)
        lr == t1.nodes[l].right
        t2 == [t1 EXCEPT !.nodes[node].left = lr]
        t4 == [t2 EXCEPT !.nodes[l].right = node]
    IN  [t4 EXCEPT !.nodes[node].parent = l]

rotateRight(t, node) ==
    LET l  == t.nodes[node].left
        t1 == replaceNode(t, node, l)
        lr == t1.nodes[l].right
        t2 == [t1 EXCEPT !.nodes[node].left = lr]
        t3 == IF lr # Nil THEN [t2 EXCEPT !.nodes[lr].parent = node] ELSE t2
        t4 == [t3 EXCEPT !.nodes[l].right = node]
    IN  [t4 EXCEPT !.nodes[node].parent = l]

\* ---------------------------------------------------------- insertion fix-up
insertCase5(t, node) ==
    LET p  == t.nodes[node].parent
        t1 == [t EXCEPT !.nodes[p].color = black]
        g  == grandparent(t1, node)
        t2 == [t1 EXCEPT !.nodes[g].color = red]
    IN  IF node = t2.nodes[p].left /\ p = t2.nodes[g].left
        THEN rotateRight(t2, g)
        ELSE IF node = t2.nodes[p].right /\ p = t2.nodes[g].right
        THEN rotateLeft(t2, g)
        ELSE t2

insertCase4(t, node) ==
    LET g == grandparent(t, node)
        p == t.nodes[node].parent
    IN  IF node = t.nodes[p].right /\ p = t.nodes[g].left
        THEN LET t1 == rotateLeft(t, p) IN insertCase5(t1, t1.nodes[node].left)
        ELSE IF node = t.nodes[p].left /\ p = t.nodes[g].right
        THEN LET t1 == rotateRight(t, p) IN insertCase5(t1, t1.nodes[node].right)
        ELSE insertCase5(t, node)

RECURSIVE insertCase1(_, _)
insertCase3(t, node) ==
    LET u == uncle(t, node)
    IN  IF nodeColor(t, u) = red
        THEN LET t1 == [t EXCEPT !.nodes[t.nodes[node].parent].color = black]
                 t2 == [t1 EXCEPT !.nodes[u].color = black]
                 t3 == [t2 EXCEPT !.nodes[grandparent(t2, node)].color = red]
             IN  insertCase1(t3, grandparent(t3, node))
        ELSE insertCase4(t, node)

insertCase2(t, node) ==
    IF nodeColor(t, t.nodes[node].parent) = black THEN t
    ELSE insertCase3(t, node)

insertCase1(t, node) ==
    IF t.nodes[node].parent = Nil
    THEN [t EXCEPT !.nodes[node].color = black]
    ELSE insertCase2(t, node)

\* ----------------------------------------------------------- deletion fix-up
\* A faulty deleteCase6: it leaves the far nephew red.
deleteCase6Mut(t, node) ==
    LET s  == sibling(t, node)
        p  == t.nodes[node].parent
        t1 == [t EXCEPT !.nodes[s].color = nodeColor(t, p)]
        t2 == [t1 EXCEPT !.nodes[p].color = black]
    IN  IF node = t2.nodes[p].left /\ nodeColor(t2, t2.nodes[s].right) = red
        THEN rotateLeft(t2, p)
        ELSE IF nodeColor(t2, t2.nodes[s].left) = red
        THEN rotateRight(t2, p)
        ELSE t2

deleteCase6(t, node) ==
    LET s  == sibling(t, node)
        p  == t.nodes[node].parent
        t1 == [t EXCEPT !.nodes[s].color = nodeColor(t, p)]
        t2 == [t1 EXCEPT !.nodes[p].color = black]
    IN  IF node = t2.nodes[p].left /\ nodeColor(t2, t2.nodes[s].right) = red
        THEN rotateLeft([t2 EXCEPT !.nodes[t2.nodes[s].right].color = black], p)
        ELSE IF nodeColor(t2, t2.nodes[s].left) = red
        THEN rotateRight([t2 EXCEPT !.nodes[t2.nodes[s].left].color = black], p)
        ELSE t2

deleteCase5(t, node) ==
    LET s == sibling(t, node)
        p == t.nodes[node].parent
    IN  IF /\ node = t.nodes[p].left
           /\ nodeColor(t, s) = black
           /\ nodeColor(t, t.nodes[s].left) = red
           /\ nodeColor(t, t.nodes[s].right) = black
        THEN LET t1 == [t EXCEPT !.nodes[s].color = red]
                 t2 == [t1 EXCEPT !.nodes[t1.nodes[s].left].color = black]
             IN  deleteCase6(rotateRight(t2, s), node)
        ELSE IF /\ node = t.nodes[p].right
                /\ nodeColor(t, s) = black
                /\ nodeColor(t, t.nodes[s].right) = red
                /\ nodeColor(t, t.nodes[s].left) = black
        THEN LET t1 == [t EXCEPT !.nodes[s].color = red]
                 t2 == [t1 EXCEPT !.nodes[t1.nodes[s].right].color = black]
             IN  deleteCase6(rotateLeft(t2, s), node)
        ELSE deleteCase6(t, node)

deleteCase4(t, node) ==
    LET s == sibling(t, node)
        p == t.nodes[node].parent
    IN  IF /\ nodeColor(t, p) = red
           /\ nodeColor(t, s) = black
           /\ nodeColor(t, t.nodes[s].left) = black
           /\ nodeColor(t, t.nodes[s].right) = black
        THEN LET t1 == [t EXCEPT !.nodes[s].color = red]
             IN  [t1 EXCEPT !.nodes[p].color = black]
        ELSE deleteCase5(t, node)

RECURSIVE deleteCase1(_, _)
deleteCase3(t, node) ==
    LET s == sibling(t, node)
        p == t.nodes[node].parent
    IN  IF /\ nodeColor(t, p) = black
           /\ nodeColor(t, s) = black
           /\ nodeColor(t, t.nodes[s].left) = black
           /\ nodeColor(t, t.nodes[s].right) = black
        THEN deleteCase1([t EXCEPT !.nodes[s].color = red], p)
        ELSE deleteCase4(t, node)

deleteCase2(t, node) ==
    LET s == sibling(t, node)
        p == t.nodes[node].parent
    IN  IF nodeColor(t, s) = red
        THEN LET t1 == [t EXCEPT !.nodes[p].color = red]
                 t2 == [t1 EXCEPT !.nodes[s].color = black]
             IN  IF node = t2.nodes[p].left
                 THEN deleteCase3(rotateLeft(t2, p), node)
                 ELSE deleteCase3(rotateRight(t2, p), node)
        ELSE deleteCase3(t, node)

deleteCase1(t, node) ==
    IF t.nodes[node].parent = Nil THEN t
    ELSE deleteCase2(t, node)

\* ------------------------------------------------------------ the heap
\* &Node{...}: a fresh address, one that holds no node.
newNode(t) == CHOOSE n \in NodeIds :
                 /\ t.nodes[n].key = NilKey
                 /\ \A m \in NodeIds : t.nodes[m].key = NilKey => n <= m

RECURSIVE inorder(_, _)
inorder(t, node) ==
    IF node = Nil THEN <<>>
    ELSE inorder(t, t.nodes[node].left) \o <<node>> \o inorder(t, t.nodes[node].right)

\* Go pointers are opaque and unreachable nodes are garbage: a tree is known
\* only up to the names of its addresses.  collect drops the nodes the root
\* no longer reaches and names every live node by its in-order position.
collect(t) ==
    LET seq == inorder(t, t.root)
        pos == [n \in NodeIds \cup {Nil} |->
                  IF \E i \in 1..Len(seq) : seq[i] = n
                  THEN CHOOSE i \in 1..Len(seq) : seq[i] = n
                  ELSE Nil]
    IN  [root  |-> pos[t.root],
         size  |-> t.size,
         nodes |-> [i \in NodeIds |->
                      IF i <= Len(seq)
                      THEN LET r == t.nodes[seq[i]]
                           IN  [r EXCEPT !.left = pos[r.left],
                                         !.right = pos[r.right],
                                         !.parent = pos[r.parent]]
                      ELSE ZeroNode]]

\* ------------------------------------------------------------ Tree.Put
\* A faulty duplicate test: it compares the values, not their identities.
duplicatedMut(vs, value) == \E i \in 1..Len(vs) : vs[i] = value

\* for _, v := range node.values { if v.ID() == value.ID() { return } }
duplicated(vs, value) == \E i \in 1..Len(vs) : ID(vs[i]) = ID(value)

\* The insertion: everything Put does before it calls insertCase1.  The
\* result is the tree and the inserted node (Nil when Put returned early).
RECURSIVE putLoop(_, _, _, _)
putLoop(t, node, key, value) ==
    LET compare == comparator(key, t.nodes[node].key)
        n       == newNode(t)
        fresh   == [ZeroNode EXCEPT !.key = key, !.values = <<value>>,
                                    !.color = red, !.parent = node]
    IN  IF compare = 0
        THEN IF duplicated(t.nodes[node].values, value)
             THEN [t |-> t, inserted |-> Nil]
             ELSE [t |-> [t EXCEPT !.size = @ + 1,
                                   !.nodes[node].values = Append(@, value)],
                   inserted |-> Nil]
        ELSE IF compare < 0
        THEN IF t.nodes[node].left = Nil
             THEN [t |-> [t EXCEPT !.size = @ + 1, !.nodes[n] = fresh,
                                   !.nodes[node].left = n],
                   inserted |-> n]
             ELSE putLoop(t, t.nodes[node].left, key, value)
        ELSE IF t.nodes[node].right = Nil
             THEN [t |-> [t EXCEPT !.size = @ + 1, !.nodes[n] = fresh,
                                   !.nodes[node].right = n],
                   inserted |-> n]
             ELSE putLoop(t, t.nodes[node].right, key, value)

putInsert(t, key, value) ==
    IF t.root = Nil
    THEN LET n == newNode(t)
         IN  [t |-> [t EXCEPT !.size = @ + 1, !.root = n,
                       !.nodes[n] = [ZeroNode EXCEPT !.key = key,
                                       !.values = <<value>>, !.color = red]],
              inserted |-> n]
    ELSE putLoop(t, t.root, key, value)

\* A faulty Put: it runs the insertion fix-up also on the node of a key that
\* was in the tree.
PutFixMut(t, key, value) ==
    IF key = NilKey \/ value = NilValue THEN t
    ELSE LET r == putInsert(t, key, value)
         IN  collect(insertCase1(r.t, IF r.inserted = Nil THEN lookup(r.t, key)
                                      ELSE r.inserted))

\* A faulty Put: it does not test the key and the value for nil.
PutMut(t, key, value) ==
    LET r == putInsert(t, key, value)
    IN  IF r.inserted = Nil THEN r.t
        ELSE collect(insertCase1(r.t, r.inserted))

\* The heap when Put returns: the node a rotation moved down is still
\* there, and so is every address a live node names.
putHeap(t, key, value) ==
    IF key = NilKey \/ value = NilValue THEN t
    ELSE LET r == putInsert(t, key, value)
         IN  IF r.inserted = Nil THEN r.t ELSE insertCase1(r.t, r.inserted)

Put(t, key, value) ==
    IF key = NilKey \/ value = NilValue THEN t
    ELSE LET r == putInsert(t, key, value)
         IN  IF r.inserted = Nil THEN r.t
             ELSE collect(insertCase1(r.t, r.inserted))

\* ------------------------------------------------------------ Tree.Remove
\* A faulty decrement: it counts the node, not its values.
removeSizeMut(t, node) == [t EXCEPT !.size = @ - 1]

\* tree.size -= len(node.values)
removeSize(t, node) == [t EXCEPT !.size = @ - Len(t.nodes[node].values)]

\* A faulty substitution: it copies the key and leaves the values.
removeSwapMut(t, node, pred) ==
    [t EXCEPT !.nodes[node].key = t.nodes[pred].key]

\* node.key = pred.key; node.values = pred.values
removeSwap(t, node, pred) ==
    [t EXCEPT !.nodes[node].key = t.nodes[pred].key,
              !.nodes[node].values = t.nodes[pred].values]

\* Remove after the size has been decremented: found is the node that holds
\* key.
removeSplice(t1, found) ==
    LET two  == t1.nodes[found].left # Nil /\ t1.nodes[found].right # Nil
        pred == maximumNode(t1, t1.nodes[found].left)
        t2   == IF two THEN removeSwap(t1, found, pred) ELSE t1
        node == IF two THEN pred ELSE found
    IN  IF t2.nodes[node].left = Nil \/ t2.nodes[node].right = Nil
        THEN LET child == IF t2.nodes[node].right = Nil
                          THEN t2.nodes[node].left
                          ELSE t2.nodes[node].right
                 t3 == IF t2.nodes[node].color = black
                       THEN deleteCase1(
                              [t2 EXCEPT !.nodes[node].color = nodeColor(t2, child)],
                              node)
                       ELSE t2
                 t4 == replaceNode(t3, node, child)
             IN  IF t4.nodes[node].parent = Nil /\ child # Nil
                 THEN [t4 EXCEPT !.nodes[child].color = black]
                 ELSE t4
        ELSE t2

\* Remove from the lookup's result on.
removeNode(t, found) == removeSplice(removeSize(t, found), found)

\* The node Remove unlinks for the node found: the node itself, or its
\* in-order predecessor when it has two children.
unlinked(t, found) ==
    IF t.nodes[found].left # Nil /\ t.nodes[found].right # Nil
    THEN maximumNode(t, t.nodes[found].left)
    ELSE found

\* The heap when Remove returns: the unlinked node is still at its address.
removeHeap(t, key) ==
    IF key = NilKey THEN t
    ELSE LET node == lookup(t, key)
         IN  IF node = Nil THEN t ELSE removeNode(t, node)

Remove(t, key) ==
    IF key = NilKey THEN t
    ELSE LET node == lookup(t, key)
         IN  IF node = Nil THEN t ELSE collect(removeNode(t, node))

\* A faulty Clear: it drops the root and keeps the size.
ClearSizeMut(t) == collect([t EXCEPT !.root = Nil])

\* A faulty Clear: it resets the size and keeps the root.
ClearMut(t) == collect([t EXCEPT !.size = 0])

\* ------------------------------------------------------------ Tree.Clear
Clear(t) == collect([t EXCEPT !.root = Nil, !.size = 0])

\* ------------------------------------------------------------ queries
Get(t, key) ==
    IF key = NilKey THEN [values |-> <<>>, found |-> FALSE]
    ELSE LET node == lookup(t, key)
         IN  IF node # Nil THEN [values |-> t.nodes[node].values, found |-> TRUE]
             ELSE [values |-> <<>>, found |-> FALSE]

Empty(t) == t.size = 0

Size(t) == t.size

\* A faulty descent of Left: it stops at the root.
leftmostMut(t, parent, current) ==
    IF current = Nil THEN parent ELSE current

RECURSIVE leftmost(_, _, _)
leftmost(t, parent, current) ==
    IF current = Nil THEN parent
    ELSE leftmost(t, current, t.nodes[current].left)

RECURSIVE rightmost(_, _, _)
rightmost(t, parent, current) ==
    IF current = Nil THEN parent
    ELSE rightmost(t, current, t.nodes[current].right)

\* Left and Right return the values of the terminal node; the key of that
\* node is kept beside them for the callers that remove it.
Left(t) ==
    LET parent == leftmost(t, Nil, t.root)
    IN  IF parent # Nil
        THEN [key |-> t.nodes[parent].key, values |-> t.nodes[parent].values]
        ELSE [key |-> NilKey, values |-> <<>>]

Right(t) ==
    LET parent == rightmost(t, Nil, t.root)
    IN  IF parent # Nil
        THEN [key |-> t.nodes[parent].key, values |-> t.nodes[parent].values]
        ELSE [key |-> NilKey, values |-> <<>>]

\* PopLeft and PopRight of internal/pkg (called by tree.PopMin and tree.PopMax,
\* src/redblacktree.go:107-126): Left or Right, then Remove of that key.
PopLeft(t)  == Remove(t, Left(t).key)
PopRight(t) == Remove(t, Right(t).key)

\* ------------------------------------------------------------ Tree.Floor
\* A faulty loop of Floor: it keeps the first candidate it met.
RECURSIVE floorLoopMut(_, _, _, _)
floorLoopMut(t, node, key, r) ==
    IF node = Nil THEN r
    ELSE LET compare == comparator(key, t.nodes[node].key)
         IN  IF compare = 0 THEN [values |-> t.nodes[node].values, found |-> TRUE]
             ELSE IF compare < 0 THEN floorLoopMut(t, t.nodes[node].left, key, r)
             ELSE floorLoopMut(t, t.nodes[node].right, key,
                               IF r.found THEN r
                               ELSE [values |-> t.nodes[node].values, found |-> TRUE])

\* for node != nil { ... }: r holds the results floor and found.
RECURSIVE floorLoop(_, _, _, _)
floorLoop(t, node, key, r) ==
    IF node = Nil THEN r
    ELSE LET compare == comparator(key, t.nodes[node].key)
         IN  IF compare = 0 THEN [values |-> t.nodes[node].values, found |-> TRUE]
             ELSE IF compare < 0 THEN floorLoop(t, t.nodes[node].left, key, r)
             ELSE floorLoop(t, t.nodes[node].right, key,
                            [values |-> t.nodes[node].values, found |-> TRUE])

Floor(t, key) ==
    LET r == floorLoop(t, t.root, key, [values |-> <<>>, found |-> FALSE])
    IN  IF r.found THEN r ELSE [values |-> <<>>, found |-> FALSE]

\* ------------------------------------------------------------ Tree.Ceiling
RECURSIVE ceilingLoop(_, _, _, _)
ceilingLoop(t, node, key, r) ==
    IF node = Nil THEN r
    ELSE LET compare == comparator(key, t.nodes[node].key)
         IN  IF compare = 0 THEN [values |-> t.nodes[node].values, found |-> TRUE]
             ELSE IF compare < 0
             THEN ceilingLoop(t, t.nodes[node].left, key,
                              [values |-> t.nodes[node].values, found |-> TRUE])
             ELSE ceilingLoop(t, t.nodes[node].right, key, r)

Ceiling(t, key) ==
    LET r == ceilingLoop(t, t.root, key, [values |-> <<>>, found |-> FALSE])
    IN  IF r.found THEN r ELSE [values |-> <<>>, found |-> FALSE]

\* ------------------------------------------------------------ Iterator
\* The iterator of internal/pkg, which tree.Iterator returns
\* (src/redblacktree.go:135-138): a cursor over the live nodes, before the
\* first element when it is obtained, that Next moves to the in-order
\* successor.
Iterator(t) == [node |-> Nil, position |-> "begin"]

\* The nearest ancestor of node whose key is not smaller than key, Nil when
\* there is none.
RECURSIVE climb(_, _, _)
climb(t, node, key) ==
    LET p == t.nodes[node].parent
    IN  IF p = Nil THEN Nil
        ELSE IF comparator(key, t.nodes[p].key) <= 0 THEN p
        ELSE climb(t, p, key)

\* Next(): the iterator after the call, and the boolean the call returns.
IteratorNext(t, i) ==
    LET to(n) == IF n = Nil
                 THEN [it |-> [node |-> Nil, position |-> "end"], ok |-> FALSE]
                 ELSE [it |-> [node |-> n, position |-> "between"], ok |-> TRUE]
    IN  IF i.position = "end" THEN to(Nil)
        ELSE IF i.position = "begin" THEN to(leftmost(t, Nil, t.root))
        ELSE IF t.nodes[i.node].right # Nil
        THEN to(leftmost(t, Nil, t.nodes[i.node].right))
        ELSE to(climb(t, i.node, t.nodes[i.node].key))

\* Key() and Values() of the element the iterator is at.
IteratorKey(t, i) == t.nodes[i.node].key
IteratorValues(t, i) == t.nodes[i.node].values

\* ------------------------------------------------------- the reference map
RefPut(m, key, value) ==
    IF key = NilKey \/ value = NilValue THEN m
    ELSE IF \E i \in 1..Len(m[key]) : ID(m[key][i]) = ID(value) THEN m
    ELSE [m EXCEPT ![key] = Append(@, value)]

RefRemove(m, key) == IF key = NilKey THEN m ELSE [m EXCEPT ![key] = <<>>]

RefClear == [k \in Keys |-> <<>>]

\* ------------------------------------------------------------ the program
\* The arguments the callers pass to Put: every key with value 1, the first
\* MaxExtra pairs of (1,2), (1,3), (2,2), (2,3), ..., and nil keys and values.
extraArg(i) == <<((i - 1) \div 2) + 1, 2 + ((i - 1) % 2)>>

PutArgs ==
    {<<k, 1>> : k \in Keys}
    \cup {extraArg(i) : i \in 1..MaxExtra}
    \cup {<<NilKey, 1>>, <<1, NilValue>>, <<NilKey, NilValue>>}

Op(op, key, value, found, values, n) ==
    [op |-> op, key |-> key, value |-> value, found |-> found,
     values |-> values, n |-> n]

NoDrain == [mode |-> "none", n |-> 0, pops |-> 0]

Procs == 1..NumProcs

\* No operation in progress.  path is the early return by which the
\* goroutine's last operation left its body, "none" when it ran to its end.
NoCall == [op |-> "none", key |-> NilKey, value |-> NilValue, node |-> Nil,
           path |-> "none"]

Init ==
    /\ tree = NewWith(IntComparator).tree
    /\ ref = RefClear
    /\ last = Op("NewWith", NilKey, NilValue, TRUE, <<IntComparator>>, 0)
    /\ drain = NoDrain
    /\ pc = [p \in Procs |-> "idle"]
    /\ call = [p \in Procs |-> NoCall]
    /\ lock = [writer |-> 0, readers |-> 0]
    /\ seen = TRUE
    /\ twin = NewWith(IntComparator).tree
    /\ err = NewWith(IntComparator).err
    /\ it = NoIterator

\* tree.Put(key, value).  found records whether key was in the tree before.
DoPut(key, value) ==
    /\ drain.mode = "none"
    /\ tree' = Put(tree, key, value)
    /\ ref' = RefPut(ref, key, value)
    /\ last' = Op("Put", key, value, Get(tree, key).found, <<>>, 0)
    /\ twin' = Put(twin, key, value)
    /\ UNCHANGED <<drain, concvars, auxvars>>

\* The number of children of node (0 for no node).
children(t, node) ==
    IF node = Nil THEN 0
    ELSE (IF t.nodes[node].left # Nil THEN 1 ELSE 0)
         + (IF t.nodes[node].right # Nil THEN 1 ELSE 0)

\* tree.Remove(key).  found records whether key was in the tree before, n the
\* number of children its node had.
DoRemove(key) ==
    /\ drain.mode = "none"
    /\ tree' = Remove(tree, key)
    /\ ref' = RefRemove(ref, key)
    /\ last' = Op("Remove", key, NilValue, Get(tree, key).found, <<>>,
                  IF key = NilKey THEN 0 ELSE children(tree, lookup(tree, key)))
    /\ twin' = Remove(twin, key)
    /\ UNCHANGED <<drain, concvars, auxvars>>

\* tree.Clear().  n records the size the tree had.
DoClear ==
    /\ drain.mode = "none"
    /\ tree' = Clear(tree)
    /\ ref' = RefClear
    /\ last' = Op("Clear", NilKey, NilValue, FALSE, <<>>, Size(tree))
    /\ twin' = NewWith(IntComparator).tree
    /\ UNCHANGED <<drain, concvars, auxvars>>

DoGet(key) ==
    /\ drain.mode = "none"
    /\ last' = Op("Get", key, NilValue, Get(tree, key).found, Get(tree, key).values, 0)
    /\ UNCHANGED <<twin, tree, ref, drain, concvars, auxvars>>

DoSize ==
    /\ drain.mode = "none"
    /\ last' = Op("Size", NilKey, NilValue, Empty(tree), <<>>, Size(tree))
    /\ UNCHANGED <<twin, tree, ref, drain, concvars, auxvars>>

DoMin ==
    /\ drain.mode = "none"
    /\ last' = Op("Min", Left(tree).key, NilValue, FALSE, Left(tree).values, 0)
    /\ UNCHANGED <<twin, tree, ref, drain, concvars, auxvars>>

DoMax ==
    /\ drain.mode = "none"
    /\ last' = Op("Max", Right(tree).key, NilValue, FALSE, Right(tree).values, 0)
    /\ UNCHANGED <<twin, tree, ref, drain, concvars, auxvars>>

\* The number of nodes of the tree.
NumNodes(t) == Len(inorder(t, t.root))

\* The nodes the root reaches.
Live(t) == {inorder(t, t.root)[i] : i \in 1..NumNodes(t)}

\* The caller enters the loop "for !tree.Empty() { tree.PopMin() }" (or PopMax).
StartDrain(mode) ==
    /\ drain.mode = "none"
    /\ drain' = [mode |-> mode, n |-> NumNodes(tree), pops |-> 0]
    /\ last' = Op("Loop", NilKey, NilValue, FALSE, <<>>, 0)
    /\ UNCHANGED <<twin, tree, ref, concvars, auxvars>>

\* One iteration: Empty() was false; pop the minimum.
PopMin ==
    /\ drain.mode = "min"
    /\ ~Empty(tree)
    /\ tree' = PopLeft(tree)
    /\ ref' = RefRemove(ref, Left(tree).key)
    /\ last' = Op("PopMin", Left(tree).key, NilValue, FALSE, Left(tree).values, 0)
    /\ drain' = [drain EXCEPT !.pops = @ + 1]
    /\ twin' = PopLeft(twin)
    /\ UNCHANGED <<concvars, auxvars>>

PopMax ==
    /\ drain.mode = "max"
    /\ ~Empty(tree)
    /\ tree' = PopRight(tree)
    /\ ref' = RefRemove(ref, Right(tree).key)
    /\ last' = Op("PopMax", Right(tree).key, NilValue, FALSE, Right(tree).values, 0)
    /\ drain' = [drain EXCEPT !.pops = @ + 1]
    /\ twin' = PopRight(twin)
    /\ UNCHANGED <<concvars, auxvars>>

\* Empty() was true: the loop ends.
EndDrain ==
    /\ drain.mode # "none"
    /\ Empty(tree)
    /\ drain' = NoDrain
    /\ last' = Op("Done", NilKey, NilValue, TRUE, <<>>, drain.pops)
    /\ UNCHANGED <<twin, tree, ref, concvars, auxvars>>

Next ==
    \/ \E a \in PutArgs : DoPut(a[1], a[2])
    \/ \E key \in Keys \cup {NilKey} : DoRemove(key)
    \/ DoClear
    \/ \E key \in Keys \cup {NilKey} : DoGet(key)
    \/ DoSize
    \/ DoMin
    \/ DoMax
    \/ \E mode \in {"min", "max"} : StartDrain(mode)
    \/ PopMin
    \/ PopMax
    \/ EndDrain

Spec == Init /\ [][Next]_vars

\* The callers only put and remove: the trees are those of Spec, which
\* Clear and the pops reach too, and every step is a Put or a Remove.
PutRemoveNext ==
    \/ \E a \in PutArgs : DoPut(a[1], a[2])
    \/ \E key \in Keys \cup {NilKey} : DoRemove(key)

PutRemoveSpec == Init /\ [][PutRemoveNext]_vars

\* ------------------------------------------------------- construction
\* The caller constructs a tree in place of the one it has:
\* tree, err = NewWith(c), or New(c) of the wrapper.  values records the
\* comparator passed, found whether err is nil.
DoNew(ctor, c) ==
    /\ drain.mode = "none"
    /\ LET r == IF ctor = "New" THEN New(c) ELSE NewWith(c)
       IN  /\ tree' = r.tree
           /\ twin' = r.tree
           /\ err' = r.err
           /\ last' = Op(ctor, NilKey, NilValue, r.err = NoError, <<c>>, 0)
    /\ ref' = RefClear
    /\ UNCHANGED <<drain, concvars, it>>

\* A caller that constructs trees and, when it has one, uses it.
NewNext ==
    \/ \E ctor \in {"New", "NewWith"}, c \in Comparators : DoNew(ctor, c)
    \/ err = NoError /\ \E a \in PutArgs : DoPut(a[1], a[2])
    \/ err = NoError /\ \E key \in Keys : DoRemove(key)
    \/ err = NoError /\ DoSize

NewSpec == Init /\ [][NewNext]_vars

\* ------------------------------------------------- structural primitives
\* A harness calls the primitives on a tree that Put and Remove built:
\* rotateLeft on a node with a right child and rotateRight on a node with a
\* left child, also on what one earlier rotation made of the tree (a fix-up
\* rotates twice in a row); and, as Remove does on the node it unlinks,
\* replaceNode on a node with at most one child and that child or nil.  Once
\* a primitive has run, the tree is no red-black tree and the public
\* operations are not called on it; after the second rotation or after
\* replaceNode the harness stops.
Rotated      == [mode |-> "rotated", n |-> 0, pops |-> 0]
RotatedAgain == [mode |-> "rotated again", n |-> 0, pops |-> 0]
Replaced     == [mode |-> "replaced", n |-> 0, pops |-> 0]

\* The arguments of Put in the harness.
HarnessArgs == {<<k, 1>> : k \in Keys} \cup {extraArg(1)}

ApplyRotateLeft(node) ==
    /\ drain \in {NoDrain, Rotated}
    /\ node \in Live(tree) /\ tree.nodes[node].right # Nil
    /\ tree' = collect(rotateLeft(tree, node))
    /\ twin' = tree'
    /\ drain' = IF drain = NoDrain THEN Rotated ELSE RotatedAgain
    /\ last' = Op("rotateLeft", NilKey, NilValue, FALSE, <<>>, 0)
    /\ UNCHANGED <<ref, concvars, auxvars>>

ApplyRotateRight(node) ==
    /\ drain \in {NoDrain, Rotated}
    /\ node \in Live(tree) /\ tree.nodes[node].left # Nil
    /\ tree' = collect(rotateRight(tree, node))
    /\ twin' = tree'
    /\ drain' = IF drain = NoDrain THEN Rotated ELSE RotatedAgain
    /\ last' = Op("rotateRight", NilKey, NilValue, FALSE, <<>>, 0)
    /\ UNCHANGED <<ref, concvars, auxvars>>

\* The child Remove passes to replaceNode for a node with at most one child.
onlyChild(t, node) ==
    IF t.nodes[node].right = Nil THEN t.nodes[node].left ELSE t.nodes[node].right

ApplyReplaceNode(old) ==
    /\ drain \in {NoDrain, Rotated}
    /\ old \in Live(tree)
    /\ tree.nodes[old].left = Nil \/ tree.nodes[old].right = Nil
    /\ tree' = collect(replaceNode(tree, old, onlyChild(tree, old)))
    /\ twin' = tree'
    /\ drain' = Replaced
    /\ last' = Op("replaceNode", NilKey, NilValue, FALSE, <<>>, 0)
    /\ UNCHANGED <<ref, concvars, auxvars>>

PrimitiveNext ==
    \/ \E a \in HarnessArgs : DoPut(a[1], a[2])
    \/ \E key \in Keys : DoRemove(key)
    \/ \E node \in NodeIds : ApplyRotateLeft(node)
    \/ \E node \in NodeIds : ApplyRotateRight(node)
    \/ \E old \in NodeIds : ApplyReplaceNode(old)

PrimitiveSpec == Init /\ [][PrimitiveNext]_vars

\* ------------------------------------------------- nearest-key queries
\* tree.Floor(key) and tree.Ceiling(key) on a tree built by Put and Remove.
DoFloor(key) ==
    /\ drain.mode = "none"
    /\ last' = Op("Floor", key, NilValue, Floor(tree, key).found,
                  Floor(tree, key).values, 0)
    /\ UNCHANGED <<tree, ref, drain, twin, concvars, auxvars>>

DoCeiling(key) ==
    /\ drain.mode = "none"
    /\ last' = Op("Ceiling", key, NilValue, Ceiling(tree, key).found,
                  Ceiling(tree, key).values, 0)
    /\ UNCHANGED <<tree, ref, drain, twin, concvars, auxvars>>

\* ------------------------------------------------------------ iteration
\* The caller obtains an iterator and enters the loop
\* "for iterator.Next() { iterator.Key(), iterator.Values() }"; it does not
\* call a mutation before the loop ends.  drain counts the iterations.
DoIterator ==
    /\ drain.mode = "none"
    /\ it' = Iterator(tree)
    /\ drain' = [mode |-> "iterate", n |-> NumNodes(tree), pops |-> 0]
    /\ last' = Op("Iterator", NilKey, NilValue, FALSE, <<>>, 0)
    /\ UNCHANGED <<tree, ref, twin, concvars, err>>

\* Next() returned true: the body reads Key() and Values().
IterateStep ==
    /\ drain.mode = "iterate"
    /\ IteratorNext(tree, it).ok
    /\ it' = IteratorNext(tree, it).it
    /\ drain' = [drain EXCEPT !.pops = @ + 1]
    /\ last' = Op("Next", IteratorKey(tree, it'), NilValue, TRUE,
                  IteratorValues(tree, it'), drain.pops + 1)
    /\ UNCHANGED <<tree, ref, twin, concvars, err>>

\* Next() returned false: the loop ends and the caller drops the iterator.
\* n records the number of calls of Next() that returned true.
IterateEnd ==
    /\ drain.mode = "iterate"
    /\ ~IteratorNext(tree, it).ok
    /\ it' = NoIterator
    /\ drain' = NoDrain
    /\ last' = Op("Next", NilKey, NilValue, FALSE, <<>>, drain.pops)
    /\ UNCHANGED <<tree, ref, twin, concvars, err>>

QueryNext ==
    \/ \E a \in PutArgs : DoPut(a[1], a[2])
    \/ \E key \in Keys \cup {NilKey} : DoRemove(key)
    \/ \E key \in Keys : DoFloor(key)
    \/ \E key \in Keys : DoCeiling(key)
    \/ DoIterator
    \/ IterateStep
    \/ IterateEnd

QuerySpec == Init /\ [][QueryNext]_vars

\* ======================================================== properties
\* The keys of the tree, in in-order.
inorderKeys(t) == [i \in 1..NumNodes(t) |-> t.nodes[inorder(t, t.root)[i]].key]

\* The nodes of the subtree of node.
Subtree(t, node) == {inorder(t, node)[i] : i \in 1..Len(inorder(t, node))}

\* The number of black nodes on every path from node down to a nil leaf
\* (the leaf counted), or -1 when two such paths differ.
RECURSIVE blackHeight(_, _)
blackHeight(t, node) ==
    IF node = Nil THEN 1
    ELSE LET l == blackHeight(t, t.nodes[node].left)
             r == blackHeight(t, t.nodes[node].right)
         IN  IF l = -1 \/ r = -1 \/ l # r THEN -1
             ELSE l + (IF t.nodes[node].color = black THEN 1 ELSE 0)

RedBlack(t) ==
    /\ t.root = Nil \/ t.nodes[t.root].color = black
    /\ \A n \in Live(t) :
          t.nodes[n].color = red =>
             /\ nodeColor(t, t.nodes[n].left) = black
             /\ nodeColor(t, t.nodes[n].right) = black
    /\ \A n \in Live(t) : blackHeight(t, n) # -1

SearchTree(t) ==
    /\ \A n \in Live(t) :
          /\ \A m \in Subtree(t, t.nodes[n].left)  : t.nodes[m].key < t.nodes[n].key
          /\ \A m \in Subtree(t, t.nodes[n].right) : t.nodes[m].key > t.nodes[n].key
    /\ \A i \in 1..NumNodes(t) - 1 : inorderKeys(t)[i] < inorderKeys(t)[i + 1]

RECURSIVE sumValues(_, _)
sumValues(t, node) ==
    IF node = Nil THEN 0
    ELSE Len(t.nodes[node].values) + sumValues(t, t.nodes[node].left)
                                   + sumValues(t, t.nodes[node].right)

\* ------------------------------------------------- concurrent callers
\* Goroutines call the operations of one Tree.  Every operation takes the
\* tree's sync.RWMutex: Lock for Put, Remove, Clear and the pops, RLock for
\* the queries.  A mutation runs in two steps under the lock, so that another
\* goroutine is scheduled in the middle of it.

WriteOps == {"Put", "Remove", "Clear", "PopMin", "PopMax"}
ReadOps  == {"Get", "Size", "Empty", "Min", "Max", "Floor", "Ceiling", "String"}

ConcKeys == 1..MaxConcKey

\* A faulty RLock: it does not look for a writer.
canRLockMut(l) == TRUE

\* sync.RWMutex.RLock returns at once unless a writer has called Lock: a
\* pending or active writer blocks every new reader.
canRLock(l) == l.writer = 0

\* sync.RWMutex.Lock, second half: the writer that announced itself waits
\* for the readers that hold the lock to leave.
canLock(l) == l.readers = 0

\* The goroutines that hold the lock shared, and exclusively.
ReadersIn == {"read", "RLock2", "RBlocked2", "read2", "output", "RUnlock"}
WritersIn == {"write1", "write2", "Unlock"}

\* What a reader may rely on: the invariants of a tree at rest.
Consistent(t) ==
    /\ RedBlack(t)
    /\ SearchTree(t)
    /\ t.size = sumValues(t, t.root)
    /\ (t.root = Nil) <=> (t.size = 0)

\* A faulty return: the unlock is no deferred call, it stands at the end of
\* the function, and a return leaves without it.
onReturnMut(op) == "idle"

\* "defer tree.Unlock()", "defer tree.RUnlock()": where a return statement of
\* op goes.
onReturn(op) == IF op \in WriteOps THEN "Unlock" ELSE "RUnlock"

\* The early return that Put, Remove, Floor and Ceiling take on tree t,
\* "none" when the operation runs to its end.
pathOf(t, c) ==
    LET node == IF c.key = NilKey THEN Nil ELSE lookup(t, c.key)
    IN  IF c.op = "Put" /\ node # Nil
        THEN IF duplicated(t.nodes[node].values, c.value)
             THEN "duplicate" ELSE "append"
        ELSE IF c.op = "Remove" /\ node = Nil THEN "absent"
        ELSE IF c.op \in {"Floor", "Ceiling"} /\ node # Nil THEN "exact"
        ELSE "none"

EarlyPaths == {"duplicate", "append", "absent", "exact"}

\* Goroutine p calls Put(key, value).
CallPut(p, key, value) ==
    /\ pc[p] = "idle"
    /\ call' = [call EXCEPT ![p] = [op |-> "Put", key |-> key, value |-> value,
                                    node |-> Nil, path |-> "none"]]
    /\ pc' = [pc EXCEPT ![p] = "Lock"]
    /\ UNCHANGED <<tree, lock, seen, seqvars>>

\* Goroutine p calls an operation.
Call(p, op, key) ==
    /\ pc[p] = "idle"
    /\ call' = [call EXCEPT ![p] = [op |-> op, key |-> key, value |-> 1,
                                    node |-> Nil, path |-> "none"]]
    /\ pc' = [pc EXCEPT ![p] = IF op \in WriteOps THEN "Lock" ELSE "RLock"]
    /\ UNCHANGED <<tree, lock, seen, seqvars>>

\* tree.Lock(), first half: p becomes the pending writer.
Lock(p) ==
    /\ pc[p] = "Lock"
    /\ lock.writer = 0
    /\ lock' = [lock EXCEPT !.writer = p]
    /\ pc' = [pc EXCEPT ![p] = "LockWait"]
    /\ UNCHANGED <<tree, call, seen, seqvars>>

\* tree.Lock(), second half: the readers have left, p holds the lock.
LockAcquire(p) ==
    /\ pc[p] = "LockWait"
    /\ canLock(lock)
    /\ pc' = [pc EXCEPT ![p] = "write1"]
    /\ UNCHANGED <<tree, call, lock, seen, seqvars>>

\* The first half of a mutation.  Put: the insertion, up to the call of
\* insertCase1.  Remove and the pops: the lookup and the decrement of size.
\* Clear: root = nil.  Put and Remove return from here when they take an
\* early return.
Write1(p) ==
    /\ pc[p] = "write1"
    /\ LET c == call[p]
           key == IF c.op = "PopMin" THEN Left(tree).key
                  ELSE IF c.op = "PopMax" THEN Right(tree).key
                  ELSE c.key
           node == IF key = NilKey THEN Nil ELSE lookup(tree, key)
           path == IF c.op \in {"Put", "Remove"} THEN pathOf(tree, c) ELSE "none"
       IN  /\ IF c.op = "Put"
              THEN /\ tree' = putInsert(tree, c.key, c.value).t
                   /\ call' = [call EXCEPT
                                 ![p].node = putInsert(tree, c.key, c.value).inserted,
                                 ![p].path = path]
              ELSE IF c.op = "Clear"
              THEN /\ tree' = [tree EXCEPT !.root = Nil]
                   /\ call' = [call EXCEPT ![p].path = path]
              ELSE /\ tree' = IF node = Nil THEN tree ELSE removeSize(tree, node)
                   /\ call' = [call EXCEPT ![p].node = node, ![p].path = path]
           /\ pc' = [pc EXCEPT ![p] = IF path \in EarlyPaths THEN onReturn(c.op)
                                      ELSE "write2"]
    /\ UNCHANGED <<lock, seen, seqvars>>

\* The second half: the fix-up of Put, the splice of Remove, size = 0 of Clear.
Write2(p) ==
    /\ pc[p] = "write2"
    /\ LET c == call[p]
       IN  tree' = IF c.op = "Clear" THEN collect([tree EXCEPT !.size = 0])
                   ELSE IF c.node = Nil THEN tree
                   ELSE IF c.op = "Put" THEN collect(insertCase1(tree, c.node))
                   ELSE collect(removeSplice(tree, c.node))
    /\ call' = [call EXCEPT ![p].node = Nil]
    /\ pc' = [pc EXCEPT ![p] = "Unlock"]
    /\ UNCHANGED <<lock, seen, seqvars>>

\* The deferred tree.Unlock(): the readers that blocked behind p now hold the
\* lock, and the operation returns.
Unlock(p) ==
    /\ pc[p] = "Unlock"
    /\ lock' = [writer |-> 0,
                readers |-> Cardinality({q \in Procs : pc[q] \in {"RBlocked", "RBlocked2"}})]
    /\ pc' = [q \in Procs |->
                IF q = p THEN "idle"
                ELSE IF pc[q] = "RBlocked" THEN "read"
                ELSE IF pc[q] = "RBlocked2" THEN "read2"
                ELSE pc[q]]
    /\ call' = [call EXCEPT ![p] = [NoCall EXCEPT !.path = call[p].path]]
    /\ UNCHANGED <<tree, seen, seqvars>>

\* tree.RLock(): p holds the lock shared, or blocks behind a writer.
RLock(p) ==
    /\ pc[p] = "RLock"
    /\ IF canRLock(lock)
       THEN /\ lock' = [lock EXCEPT !.readers = @ + 1]
            /\ pc' = [pc EXCEPT ![p] = "read"]
       ELSE /\ pc' = [pc EXCEPT ![p] = "RBlocked"]
            /\ UNCHANGED lock
    /\ UNCHANGED <<tree, call, seen, seqvars>>

\* The body of a query: it reads the tree and returns, Floor and Ceiling from
\* inside their loop on an exact match.  String goes on to call Empty.
Read(p) ==
    /\ pc[p] = "read"
    /\ IF call[p].op = "String"
       THEN /\ pc' = [pc EXCEPT ![p] = "RLock2"]
            /\ UNCHANGED <<seen, call>>
       ELSE /\ pc' = [pc EXCEPT ![p] = onReturn(call[p].op)]
            /\ call' = [call EXCEPT ![p].path = pathOf(tree, call[p])]
            /\ seen' = (seen /\ Consistent(tree))
    /\ UNCHANGED <<tree, lock, seqvars>>

\* String calls tree.Empty(), whose tree.RLock() takes the lock that String
\* already holds.
RLock2(p) ==
    /\ pc[p] = "RLock2"
    /\ IF canRLock(lock)
       THEN /\ lock' = [lock EXCEPT !.readers = @ + 1]
            /\ pc' = [pc EXCEPT ![p] = "read2"]
       ELSE /\ pc' = [pc EXCEPT ![p] = "RBlocked2"]
            /\ UNCHANGED lock
    /\ UNCHANGED <<tree, call, seen, seqvars>>

\* Empty reads size and its deferred RUnlock runs; String goes on.
Read2(p) ==
    /\ pc[p] = "read2"
    /\ seen' = (seen /\ Consistent(tree))
    /\ lock' = [lock EXCEPT !.readers = @ - 1]
    /\ pc' = [pc EXCEPT ![p] = "output"]
    /\ UNCHANGED <<tree, call, seqvars>>

\* String walks the tree: output(tree.root, ...).
Output(p) ==
    /\ pc[p] = "output"
    /\ seen' = (seen /\ Consistent(tree))
    /\ pc' = [pc EXCEPT ![p] = onReturn(call[p].op)]
    /\ UNCHANGED <<tree, call, lock, seqvars>>

\* The deferred tree.RUnlock(): the operation returns.
RUnlock(p) ==
    /\ pc[p] = "RUnlock"
    /\ lock' = [lock EXCEPT !.readers = @ - 1]
    /\ pc' = [pc EXCEPT ![p] = "idle"]
    /\ call' = [call EXCEPT ![p] = [NoCall EXCEPT !.path = call[p].path]]
    /\ UNCHANGED <<tree, seen, seqvars>>

\* A step of goroutine p inside an operation.
Step(p) ==
    \/ Lock(p) \/ LockAcquire(p) \/ Write1(p) \/ Write2(p) \/ Unlock(p)
    \/ RLock(p) \/ Read(p) \/ RLock2(p) \/ Read2(p) \/ Output(p) \/ RUnlock(p)

ConcNext ==
    \/ \E p \in Procs, op \in {"Put", "Remove"}, key \in ConcKeys : Call(p, op, key)
    \/ \E p \in Procs, op \in (WriteOps \ {"Put", "Remove"}) \cup ReadOps : Call(p, op, NilKey)
    \/ \E p \in Procs : Lock(p)
    \/ \E p \in Procs : LockAcquire(p)
    \/ \E p \in Procs : Write1(p)
    \/ \E p \in Procs : Write2(p)
    \/ \E p \in Procs : Unlock(p)
    \/ \E p \in Procs : RLock(p)
    \/ \E p \in Procs : Read(p)
    \/ \E p \in Procs : RLock2(p)
    \/ \E p \in Procs : Read2(p)
    \/ \E p \in Procs : Output(p)
    \/ \E p \in Procs : RUnlock(p)

ConcSpec == Init /\ [][ConcNext]_vars

\* The goroutines call every operation on one key, Put with two values of
\* different identity: every early return is taken.
LockArgs == {<<1, 1>>, extraArg(1)}

LockNext ==
    \/ \E p \in Procs, a \in LockArgs : CallPut(p, a[1], a[2])
    \/ \E p \in Procs, op \in {"Remove", "Get", "Floor", "Ceiling"} : Call(p, op, 1)
    \/ \E p \in Procs, op \in (WriteOps \ {"Put", "Remove"})
                               \cup (ReadOps \ {"Get", "Floor", "Ceiling"}) :
          Call(p, op, NilKey)
    \/ \E p \in Procs : Lock(p)
    \/ \E p \in Procs : LockAcquire(p)
    \/ \E p \in Procs : Write1(p)
    \/ \E p \in Procs : Write2(p)
    \/ \E p \in Procs : Unlock(p)
    \/ \E p \in Procs : RLock(p)
    \/ \E p \in Procs : Read(p)
    \/ \E p \in Procs : RLock2(p)
    \/ \E p \in Procs : Read2(p)
    \/ \E p \in Procs : Output(p)
    \/ \E p \in Procs : RUnlock(p)

LockSpec == Init /\ [][LockNext]_vars

\* C1: after every Put and every Remove the red-black colouring holds: the
\* root is black or the tree is empty, no red node has a red child, and all
\* paths from a node to its nil leaves hold the same number of black nodes.
C1_RedBlack == RedBlack(tree)

\* A Remove has just spliced a node out of a full tree, and a Put has just
\* filled a tree: the fix-ups have run on the deepest trees of the model.
C1_Witness ==
    /\ last.op = "Remove" /\ last.found
    /\ NumNodes(tree) = MaxKey - 1
    /\ \E n \in Live(tree) : tree.nodes[n].color = red

\* C2: after every Put and every Remove the tree is a binary search tree
\* with unique keys: in-order yields strictly ascending keys.
C2_SearchTree == SearchTree(tree)

\* A Remove of a key whose node had two children has just returned, on a
\* tree that still has at least four keys.
C2_Witness ==
    /\ last.op = "Remove" /\ last.found /\ last.n = 2
    /\ NumNodes(tree) >= 4

valuesOf(t, key) == Get(t, key).values

\* No value list holds two values with one identity.
UniqueIds(t) ==
    \A n \in Live(t) : \A i, j \in 1..Len(t.nodes[n].values) :
        ID(t.nodes[n].values[i]) = ID(t.nodes[n].values[j]) => i = j

\* One step of Put(key, value) on a key that is in the tree.
PutExistingStep ==
    (last'.op = "Put" /\ last'.found /\ last'.value # NilValue) =>
        LET vs == valuesOf(tree, last'.key)
        IN  IF \E i \in 1..Len(vs) : ID(vs[i]) = ID(last'.value)
            THEN /\ valuesOf(tree', last'.key) = vs
                 /\ Size(tree') = Size(tree)
            ELSE /\ valuesOf(tree', last'.key) = Append(vs, last'.value)
                 /\ Size(tree') = Size(tree) + 1

\* C4: Put(key, value) on a key already in the tree leaves the list and Size()
\* unchanged when a value of the list has the identity of value, and otherwise
\* appends value at the end and increases Size() by exactly 1; so no value
\* list ever holds two values with the same identity.
C4_PutExisting == [][PutExistingStep]_vars /\ []UniqueIds(tree)

\* A Put has just been ignored as a duplicate although its value is not in
\* the list: another value with the same identity is, next to a second value
\* that an earlier Put appended.
C4_Witness ==
    /\ last.op = "Put" /\ last.found /\ last.value # NilValue
    /\ Len(valuesOf(tree, last.key)) = 2
    /\ \A i \in 1..2 : valuesOf(tree, last.key)[i] # last.value

\* What the reference map answers to Get(key).
RefGet(m, key) ==
    IF key # NilKey /\ m[key] # <<>>
    THEN [values |-> m[key], found |-> TRUE]
    ELSE [values |-> <<>>, found |-> FALSE]

\* C5: after any sequence of Put, Remove and Clear, Get(k) agrees with the
\* reference map run through the same operations: found with the values put
\* under k since k was last removed or cleared, in insertion order, and
\* not-found when k is not in the map.
C5_GetRefinesMap ==
    /\ \A key \in Keys \cup {NilKey} : Get(tree, key) = RefGet(ref, key)
    /\ last.op = "Get" =>
          [values |-> last.values, found |-> last.found] = RefGet(ref, last.key)

\* A Get has just found two values in a tree of at least three nodes from
\* which some key has been removed or never put.
C5_Witness ==
    /\ last.op = "Get" /\ last.found /\ Len(last.values) = 2
    /\ NumNodes(tree) >= 3
    /\ \E key \in Keys : ~Get(tree, key).found

\* One step of Remove(key) on a key that is in the tree.
RemovePresentStep ==
    (last'.op = "Remove" /\ last'.found) =>
        /\ ~Get(tree', last'.key).found
        /\ Size(tree') = Size(tree) - Len(valuesOf(tree, last'.key))
        /\ \A key \in Keys \ {last'.key} : Get(tree', key) = Get(tree, key)

\* C6: Remove(k) with k present deletes exactly that key and all its values:
\* Get(k) is not-found afterwards, Size() has decreased by the number of
\* values k held, every other key keeps its value list; also when the node of
\* k has two children and takes the key and values of its predecessor.
C6_RemovePresent == [][RemovePresentStep]_vars

\* A Remove has just deleted a key whose node had two children, and the
\* predecessor whose key and values the node took holds two values.
C6_Witness ==
    /\ last.op = "Remove" /\ last.found /\ last.n = 2
    /\ \E i \in 1..NumNodes(tree) :
          /\ inorderKeys(tree)[i] < last.key
          /\ \A j \in 1..NumNodes(tree) :
                inorderKeys(tree)[j] < last.key => inorderKeys(tree)[j] <= inorderKeys(tree)[i]
          /\ Len(valuesOf(tree, inorderKeys(tree)[i])) = 2

\* The keys in the tree.
keysIn(t) == {t.nodes[n].key : n \in Live(t)}

minKey(t) == CHOOSE k \in keysIn(t) : \A j \in keysIn(t) : k <= j
maxKey(t) == CHOOSE k \in keysIn(t) : \A j \in keysIn(t) : k >= j

\* What Min and Max are to return on t.
MinOf(t) == IF keysIn(t) = {} THEN [key |-> NilKey, values |-> <<>>]
            ELSE [key |-> minKey(t), values |-> valuesOf(t, minKey(t))]
MaxOf(t) == IF keysIn(t) = {} THEN [key |-> NilKey, values |-> <<>>]
            ELSE [key |-> maxKey(t), values |-> valuesOf(t, maxKey(t))]

MinMaxState ==
    /\ Left(tree) = MinOf(tree)
    /\ Right(tree) = MaxOf(tree)
    /\ last.op = "Min" => [key |-> last.key, values |-> last.values] = MinOf(tree)
    /\ last.op = "Max" => [key |-> last.key, values |-> last.values] = MaxOf(tree)

MinMaxStep == last'.op \in {"Min", "Max"} => tree' = tree

\* C9: on every non-empty tree reachable by Put and Remove, Min returns the
\* value list of the smallest key and Max that of the largest key; on an
\* empty tree both return an empty result; neither changes the tree.
C9_MinMax == []MinMaxState /\ [][MinMaxStep]_vars

\* A Min has just returned two values from a tree of at least four nodes.
C9_Witness ==
    /\ last.op = "Min" /\ Len(last.values) = 2
    /\ NumNodes(tree) >= 4

\* Inside the loop the tree is empty exactly when as many keys have been
\* popped as the tree had when the loop began.
DrainCount ==
    drain.mode # "none" =>
        /\ drain.pops <= drain.n
        /\ drain.pops + NumNodes(tree) = drain.n
        /\ Empty(tree) <=> drain.pops = drain.n

\* Two consecutive pops of one loop.
DrainOrder ==
    /\ (last.op = "PopMin" /\ last'.op = "PopMin") => last.key < last'.key
    /\ (last.op = "PopMax" /\ last'.op = "PopMax") => last.key > last'.key
    /\ last'.op = "PopMin" => last'.key = minKey(tree) /\ last'.key \notin keysIn(tree')
    /\ last'.op = "PopMax" => last'.key = maxKey(tree) /\ last'.key \notin keysIn(tree')
    /\ last'.op \in {"PopMin", "PopMax"} =>
          /\ NumNodes(tree') = NumNodes(tree) - 1
          /\ drain'.pops = drain.pops + 1 /\ drain'.n = drain.n
    /\ drain.mode # "none" => last'.op \in {"PopMin", "PopMax", "Done"}
    /\ last'.op = "Done" => Empty(tree) /\ last'.n = drain.n

\* C10: from any reachable tree with N distinct keys, repeatedly popping the
\* minimum yields strictly ascending keys and repeatedly popping the maximum
\* strictly descending keys; Empty() becomes true after exactly N pops and
\* not before, and the loop "while not Empty: pop" terminates: every
\* iteration removes one key, and the loop ends with N pops made.
C10_Drain == []DrainCount /\ [][DrainOrder]_vars

\* A loop of pops that began on a full tree has just ended.
C10_Witness ==
    /\ last.op = "Done" /\ last.n = MaxKey
    /\ Empty(tree)

\* C7: while a mutation holds the lock no other operation, reader or writer,
\* is inside the tree; queries may be inside together; no reader observes a
\* tree in the middle of a mutation.
C7_Exclusion ==
    /\ \A p, q \in Procs :
          (p # q /\ pc[p] \in WritersIn) => pc[q] \notin (WritersIn \cup ReadersIn)
    /\ \A p \in Procs : pc[p] \in ReadersIn => Consistent(tree) /\ lock.readers > 0
    /\ seen

\* Two queries are inside a non-empty tree together.
C7_Witness ==
    /\ \E p, q \in Procs : p # q /\ pc[p] = "read" /\ pc[q] = "read"
    /\ NumNodes(tree) >= 1

\* C8: no operation blocks for ever: the callers never reach a state where an
\* operation is in progress and no goroutine inside an operation can ever
\* take a step again; String, which calls Empty under its own RLock while a
\* writer waits, included.
C8_NoOperationStuck ==
    (\E p \in Procs : pc[p] # "idle") =>
        (\E p \in Procs : pc[p] # "idle" /\ ENABLED Step(p))

\* The largest key of the set ks that is at most q and the smallest that is
\* at least q, NilKey when there is none.
floorKey(ks, q) ==
    LET below == {k \in ks : k <= q}
    IN  IF below = {} THEN NilKey
        ELSE CHOOSE k \in below : \A j \in below : j <= k
ceilingKey(ks, q) ==
    LET above == {k \in ks : k >= q}
    IN  IF above = {} THEN NilKey
        ELSE CHOOSE k \in above : \A j \in above : k <= j

\* What a query for q is to return on t when k is the nearest key.
NearestOf(t, k) ==
    IF k = NilKey THEN [values |-> <<>>, found |-> FALSE]
    ELSE [values |-> valuesOf(t, k), found |-> TRUE]

\* C11: on every reachable tree and for every query key q, Floor(q) returns
\* found with the values of the largest key that is at most q, and not-found
\* when every key is greater than q or the tree is empty; Ceiling(q) returns
\* found with the values of the smallest key that is at least q, and
\* not-found when every key is smaller or the tree is empty; an exact match
\* returns the values of that key.
C11_FloorCeiling ==
    LET ks == keysIn(tree)
        r  == [values |-> last.values, found |-> last.found]
    IN  /\ last.op = "Floor" =>
              /\ r = NearestOf(tree, floorKey(ks, last.key))
              /\ last.key \in ks => r = [values |-> valuesOf(tree, last.key), found |-> TRUE]
              /\ r = Floor(tree, last.key)
        /\ last.op = "Ceiling" =>
              /\ r = NearestOf(tree, ceilingKey(ks, last.key))
              /\ last.key \in ks => r = [values |-> valuesOf(tree, last.key), found |-> TRUE]
              /\ r = Ceiling(tree, last.key)
        /\ (last.op \in {"Floor", "Ceiling"} /\ ks = {}) => ~r.found

\* A Floor has just answered a query for a key that is not in a tree of at
\* least four keys with the two values of the nearest smaller key, while at
\* least two larger keys are in the tree.
C11_Witness ==
    /\ last.op = "Floor" /\ last.found /\ Len(last.values) = 2
    /\ last.key \notin keysIn(tree)
    /\ NumNodes(tree) >= 4
    /\ Cardinality({k \in keysIn(tree) : k > last.key}) >= 2
    /\ floorKey(keysIn(tree), last.key) < last.key

\* C12: after Clear() on any reachable tree Size() is 0, Empty() is true and
\* Get of every key reports not-found; a second Clear() changes nothing; and
\* every sequence of Put and Remove that follows produces the tree (shape,
\* colours, values, size) that the same sequence produces on a freshly
\* constructed tree: tree and twin, which was constructed when tree was last
\* cleared, remain equal.
C12_Clear ==
    /\ tree = twin
    /\ last.op = "Clear" =>
          /\ Size(tree) = 0 /\ Empty(tree)
          /\ \A key \in Keys : ~Get(tree, key).found
          /\ Clear(tree) = tree
          /\ tree = NewWith(IntComparator).tree

\* A Clear has just emptied a tree that held every key and more values than
\* keys.
C12_Witness ==
    /\ last.op = "Clear" /\ last.n > MaxKey
    /\ Empty(tree) /\ tree = twin

\* One step of a Put or a Remove that is to do nothing.
NoOpStep ==
    /\ (last'.op = "Put" /\ (last'.key = NilKey \/ last'.value = NilValue)) =>
          tree' = tree
    /\ (last'.op = "Remove" /\ (last'.key = NilKey \/ ~last'.found)) =>
          tree' = tree

\* C13: Put with a nil key or a nil value, Remove with a nil key and Remove
\* of a key that is not in the tree leave the whole tree unchanged: the same
\* nodes, links, colours, value lists and size.  (The operations return
\* nothing, so there is no error to report.)
C13_NoOps == [][NoOpStep]_vars

\* A Remove of a key that is not in the tree has just returned; the tree has
\* at least four keys, smaller and larger ones than the key, and more values
\* than keys.
C13_Witness ==
    /\ last.op = "Remove" /\ ~last.found /\ last.key # NilKey
    /\ NumNodes(tree) >= 4 /\ Size(tree) > NumNodes(tree)
    /\ \E k \in keysIn(tree) : k < last.key
    /\ \E k \in keysIn(tree) : k > last.key

\* C14: construction with a nil comparator fails with the configuration
\* error and produces no tree; construction with a comparator succeeds and
\* yields an empty tree: Size() is 0 and Empty() is true.
C14_Construction ==
    /\ last.op \in {"New", "NewWith"} =>
          IF last.values[1] = NilComparator
          THEN /\ err = ComparatorRequired /\ ~last.found
               /\ tree = NilTree
          ELSE /\ err = NoError /\ last.found
               /\ tree # NilTree
               /\ tree.root = Nil /\ Size(tree) = 0 /\ Empty(tree)
    /\ err # NoError <=> tree = NilTree

\* NewWith(nil) has just failed: the caller holds the error and no tree.
C14_Witness ==
    /\ last.op = "NewWith" /\ last.values = <<NilComparator>>
    /\ err = ComparatorRequired /\ tree = NilTree

\* C15: an iterator obtained from a tree that is not mutated meanwhile and
\* advanced with Next() until it returns false visits exactly the distinct
\* keys of the tree, each once, in strictly ascending order: the i-th
\* successful Next() stands at the i-th smallest key; Values() is that key's
\* deduplicated value list in insertion order, the list of the reference
\* map; and the number of successful Next() calls is the number of keys.
C15_Iterator ==
    LET ks == keysIn(tree)
    IN  /\ (last.op = "Next" /\ last.found) =>
              /\ drain.mode = "iterate" /\ last.n = drain.pops
              /\ last.key \in ks
              /\ Cardinality({k \in ks : k <= last.key}) = last.n
              /\ last.values = ref[last.key]
              /\ last.values = valuesOf(tree, last.key)
        /\ (last.op = "Next" /\ ~last.found) =>
              /\ drain.mode = "none"
              /\ last.n = Cardinality(ks)
        /\ drain.mode = "iterate" => drain.n = Cardinality(ks) /\ drain.pops <= drain.n

\* Next() has just returned false after it returned true for each key of a
\* full tree in which a key holds two values.
C15_Witness ==
    /\ last.op = "Next" /\ ~last.found /\ last.n = MaxKey
    /\ Size(tree) > NumNodes(tree)

\* The goroutines that have announced or hold the lock exclusively.
WritersAt == {"LockWait", "write1", "write2", "Unlock"}

\* C16: every operation releases the lock it acquired on every exit path:
\* the lock is held exactly by the operations in progress that acquired it,
\* so whenever no operation is in progress nobody holds it; also after Put
\* returned early on a duplicate identity or after appending to an existing
\* key, after Remove returned early on an absent key and after Floor and
\* Ceiling returned early on an exact match.
C16_LockReleased ==
    /\ (\A p \in Procs : pc[p] = "idle") => lock = [writer |-> 0, readers |-> 0]
    /\ \A p \in Procs : lock.writer = p <=> pc[p] \in WritersAt
    /\ lock.writer \notin Procs => lock.writer = 0
    /\ lock.readers = Cardinality({p \in Procs : pc[p] \in ReadersIn})
                        + Cardinality({p \in Procs : pc[p] = "read2"})

\* No operation is in progress and nobody holds the lock; the last operation
\* of one goroutine was a Put that returned on a duplicate identity, that of
\* another a Floor or Ceiling that returned on an exact match.
C16_Witness ==
    /\ \A p \in Procs : pc[p] = "idle"
    /\ lock = [writer |-> 0, readers |-> 0]
    /\ \E p, q \in Procs : call[p].path = "duplicate" /\ call[q].path = "exact"

\* One step of Put(key, value) on a key that is in the tree, seen from the
\* nodes: the same root, the same nodes at the same addresses with the same
\* keys, colours and links, and the same values but for the node of key.
PutInPlaceStep ==
    (last'.op = "Put" /\ last'.found /\ last'.value # NilValue) =>
        /\ tree'.root = tree.root
        /\ Live(tree') = Live(tree)
        /\ \A n \in NodeIds :
              /\ tree'.nodes[n].key = tree.nodes[n].key
              /\ tree'.nodes[n].color = tree.nodes[n].color
              /\ tree'.nodes[n].left = tree.nodes[n].left
              /\ tree'.nodes[n].right = tree.nodes[n].right
              /\ tree'.nodes[n].parent = tree.nodes[n].parent
              /\ tree.nodes[n].key # last'.key =>
                    tree'.nodes[n].values = tree.nodes[n].values
        /\ \A n \in Live(tree) :
              tree.nodes[n].key = last'.key =>
                 tree'.nodes[n].values \in
                    {tree.nodes[n].values, Append(tree.nodes[n].values, last'.value)}

\* C17: Put on a key that is in the tree mutates the node of that key in
\* place: it creates no node and removes none, rotates nothing, changes no
\* colour and no parent or child link; the set of nodes, the shape of the
\* tree and the value list of every other key are unchanged.
C17_PutInPlace == [][PutInPlaceStep]_vars

\* A Put on a key that was in the tree has just returned; the list of the key
\* holds at least two values and ends with the value put, the node of the
\* key is red, and the tree has at least five keys.
C17_Witness ==
    /\ last.op = "Put" /\ last.found /\ last.value # NilValue
    /\ Len(valuesOf(tree, last.key)) >= 2
    /\ valuesOf(tree, last.key)[Len(valuesOf(tree, last.key))] = last.value
    /\ NumNodes(tree) >= 5
    /\ tree.nodes[lookup(tree, last.key)].color = red

\* What a structural primitive leaves alone when it makes t2 of t: the size
\* and every node's key, value list and colour.
SameContent(t, t2) ==
    /\ t2.size = t.size
    /\ \A n \in NodeIds :
          /\ t2.nodes[n].key = t.nodes[n].key
          /\ t2.nodes[n].values = t.nodes[n].values
          /\ t2.nodes[n].color = t.nodes[n].color

\* C18: rotateLeft, rotateRight and replaceNode change no node's colour, key
\* or value list and not the size; a rotation keeps the in-order sequence of
\* the nodes, and so of the keys; replaceNode sets the root to the
\* replacement exactly when the replaced node has no parent.  Stated of every
\* call of a primitive on the current tree: a rotation of any node that has
\* the child, a replacement of any node by either child or by nil.
C18_Primitives ==
    /\ \A node \in Live(tree) :
          /\ tree.nodes[node].right # Nil =>
                LET t2 == rotateLeft(tree, node) IN
                /\ SameContent(tree, t2)
                /\ inorder(t2, t2.root) = inorder(tree, tree.root)
          /\ tree.nodes[node].left # Nil =>
                LET t2 == rotateRight(tree, node) IN
                /\ SameContent(tree, t2)
                /\ inorder(t2, t2.root) = inorder(tree, tree.root)
    /\ \A old \in Live(tree) :
          \A new \in {tree.nodes[old].left, tree.nodes[old].right, Nil} :
              LET t2 == replaceNode(tree, old, new) IN
              /\ SameContent(tree, t2)
              /\ t2.root = new <=> tree.nodes[old].parent = Nil
              /\ tree.nodes[old].parent # Nil => t2.root = tree.root

\* Rotations have made a tree of at least five keys, one of them with two
\* values, that is no red-black tree: its root is red and has a red child.
C18_Witness ==
    /\ last.op \in {"rotateLeft", "rotateRight"} /\ drain = RotatedAgain
    /\ NumNodes(tree) >= 5 /\ Size(tree) > NumNodes(tree)
    /\ tree.nodes[tree.root].color = red
    /\ \E n \in Live(tree) :
          tree.nodes[n].parent = tree.root /\ tree.nodes[n].color = red

\* The parent and child links of the nodes in live agree: the root has no
\* parent, and every other node has a parent link, to a node in live, and is
\* the left or the right child of that node and of no other.
LinksIn(t, live) ==
    /\ t.root # Nil => t.nodes[t.root].parent = Nil
    /\ \A n \in live \ {t.root} :
          /\ t.nodes[n].parent \in live
          /\ \A m \in live :
                (t.nodes[m].left = n \/ t.nodes[m].right = n)
                   <=> m = t.nodes[n].parent
          /\ t.nodes[t.nodes[n].parent].left # t.nodes[t.nodes[n].parent].right

\* The elements of a sequence.
Range(seq) == {seq[i] : i \in 1..Len(seq)}

\* The links of the nodes the root reaches agree.
Links(t) ==
    \A seq \in {inorder(t, t.root)} : \A live \in {Range(seq)} : LinksIn(t, live)

\* In the heap h that Remove left, where the root reaches the nodes in live,
\* it reaches neither the node at address gone nor a node with key.
Gone(h, live, gone, key) ==
    /\ gone \notin live
    /\ \A n \in live : h.nodes[n].key # key

\* A step of Put or Remove: the tree afterwards is the heap h the operation
\* leaves, without its garbage; in that heap the links agree, and after a
\* Remove of a key that was there the root reaches neither the unlinked node
\* nor a node with the key.
LinksStep ==
    /\ last'.op = "Put" =>
          \A h \in {putHeap(tree, last'.key, last'.value)} :
              tree' = collect(h) /\ Links(h)
    /\ last'.op = "Remove" =>
          \A h \in {removeHeap(tree, last'.key)} :
              \A seq \in {inorder(h, h.root)} : \A live \in {Range(seq)} :
                  /\ tree' = collect(h) /\ LinksIn(h, live)
                  /\ last'.found =>
                        Gone(h, live, unlinked(tree, lookup(tree, last'.key)),
                             last'.key)

\* C19: when Put or Remove returns, the root has no parent, every other node
\* the root reaches is the left or right child of exactly the node its
\* parent link names, and the root does not reach the node Remove removed.
C19_Links == [][LinksStep]_vars

\* Remove has returned from a node with two children in a tree that keeps at
\* least four nodes.
C19_Witness ==
    /\ last.op = "Remove" /\ last.found /\ last.n = 2
    /\ NumNodes(tree) >= 4 /\ Links(tree)

\* C20: when Put, Remove or Clear has returned (and in every other state of
\* the tree at rest), every node the root reaches holds at least one value,
\* and Empty() is true exactly when there is no root: the size is not 0 with
\* a root, and not positive without one.
C20_EmptyIffNoRoot ==
    /\ \A n \in Live(tree) : Len(tree.nodes[n].values) >= 1
    /\ Empty(tree) <=> tree.root = Nil
    /\ ~(Size(tree) = 0 /\ tree.root # Nil)
    /\ ~(Size(tree) > 0 /\ tree.root = Nil)

\* Remove has returned from the last key of the tree: the tree is empty and
\* has no root.
C20_Witness ==
    /\ last.op = "Remove" /\ last.found
    /\ Empty(tree) /\ tree.root = Nil

====
